---- MODULE Spec2Model ----
(***************************************************************************)
(* Model of DnsConnector::connect (src/src/lib.rs): one connection attempt *)
(* of the hyper DNS connector.  Strings are sequences of one-character     *)
(* strings, so that formatting and parsing are computed, not assumed.      *)
(***************************************************************************)
EXTENDS Integers, Sequences, FiniteSets, TLC

\* ------------------------------------------------------------------ bounds
\* Largest number of records (answers plus additionals) in a DNS response.
MaxRecords == 3

\* ------------------------------------------------------- Option<u16> ports
None == [some |-> FALSE]
Some(p) == [some |-> TRUE, val |-> p]

\* ------------------------------------------------------------ text helpers
DigitChars == <<"0", "1", "2", "3", "4", "5", "6", "7", "8", "9">>

IsDigit(c) == \E i \in 1..10 : DigitChars[i] = c

DigitValue(c) == (CHOOSE i \in 1..10 : DigitChars[i] = c) - 1

RECURSIVE SplitAcc(_, _, _)
SplitAcc(s, cur, acc) ==
    IF s = <<>> THEN Append(acc, cur)
    ELSE IF Head(s) = "." THEN SplitAcc(Tail(s), <<>>, Append(acc, cur))
    ELSE SplitAcc(Tail(s), Append(cur, Head(s)), acc)

\* The pieces of s between its dots ("a." gives "a" and the empty piece).
SplitDot(s) == SplitAcc(s, <<>>, <<>>)

RECURSIVE DecimalValue(_)
DecimalValue(s) ==
    IF s = <<>> THEN 0
    ELSE 10 * DecimalValue(SubSeq(s, 1, Len(s) - 1)) + DigitValue(s[Len(s)])

\* One octet of a dotted quad: 1 to 3 decimal digits, no leading zero,
\* value at most 255.
IsOctet(p) ==
    /\ Len(p) \in 1..3
    /\ \A i \in 1..Len(p) : IsDigit(p[i])
    /\ (Len(p) > 1 => p[1] # "0")
    /\ DecimalValue(p) <= 255

\* str::parse::<Ipv4Addr>(): Ok(octets) or Err.
ParseIpv4(s) ==
    LET parts == SplitDot(s) IN
    IF Len(parts) = 4 /\ \A i \in 1..4 : IsOctet(parts[i])
    THEN [ok |-> TRUE, octets |-> [i \in 1..4 |-> DecimalValue(parts[i])]]
    ELSE [ok |-> FALSE]

U8ToString(n) ==
    IF n >= 100
    THEN <<DigitChars[(n \div 100) + 1], DigitChars[((n \div 10) % 10) + 1],
           DigitChars[(n % 10) + 1]>>
    ELSE IF n >= 10
    THEN <<DigitChars[(n \div 10) + 1], DigitChars[(n % 10) + 1]>>
    ELSE <<DigitChars[n + 1]>>

\* Ipv4Addr::to_string(): the dotted quad.
Ipv4ToString(a) ==
    U8ToString(a[1]) \o <<".">> \o U8ToString(a[2]) \o <<".">>
        \o U8ToString(a[3]) \o <<".">> \o U8ToString(a[4])

\* ------------------------------------------------------------ domain names
\* trust_dns::rr::Name::parse(local, None): a label is pushed at every dot,
\* a non-empty rest is pushed at the end, and the name is fully qualified
\* when the text ends in a dot.
NameOf(s) ==
    LET parts == SplitDot(s) IN
    [labels |-> IF parts[Len(parts)] = <<>>
                THEN SubSeq(parts, 1, Len(parts) - 1) ELSE parts,
     fqdn |-> (s # <<>> /\ s[Len(s)] = ".")]

HasEmptyLabel(n) == \E i \in 1..Len(n.labels) : n.labels[i] = <<>>

\* The results Name::parse can give.  A text with an empty label ("a..")
\* is rejected by the releases of the library that validate labels and kept
\* with its empty label by those that do not: either can be built against.
ParseNameOutcomes(s) ==
    IF s = <<".">> THEN {[ok |-> TRUE, name |-> [labels |-> <<>>, fqdn |-> TRUE]]}
    ELSE IF HasEmptyLabel(NameOf(s))
    THEN {[ok |-> FALSE], [ok |-> TRUE, name |-> NameOf(s)]}
    ELSE {[ok |-> TRUE, name |-> NameOf(s)]}

\* format!("{}.", host): a dot is appended, whatever the host ends in.
FormatQueryName(host) == host \o <<".">>

\* ------------------------------------------------------------- the inputs
HostLiteral == <<"1", ".", "2", ".", "3", ".", "4">>
HostService == <<"a">>
HostDotted == <<"a", ".">>
HostThreeParts == <<"1", ".", "2", ".", "3">>

Hosts == {HostLiteral, HostService, HostDotted, HostThreeParts}
LiteralHosts == {HostLiteral}

Schemes == {"http", "https"}
RequestPorts == {None, Some(80), Some(8080)}
Policies == {"A", "SRV", "AUTO"}

Destinations == [scheme : Schemes, host : Hosts, port : RequestPorts]

NameA == [labels |-> << <<"a">> >>, fqdn |-> TRUE]
NameT == [labels |-> << <<"t">> >>, fqdn |-> TRUE]
RecordNames == {NameA, NameT}

Addr1 == <<10, 0, 0, 5>>
Addr2 == <<10, 0, 0, 6>>

ARecords == {[name |-> n, rdata |-> [type |-> "A", addr |-> a]] :
                n \in RecordNames, a \in {Addr1, Addr2}}
AAAARecords == {[name |-> n, rdata |-> [type |-> "AAAA"]] : n \in RecordNames}
SrvRecords == {[name |-> NameA,
                rdata |-> [type |-> "SRV", target |-> t, port |-> 8443]] :
                  t \in RecordNames}
Records == ARecords \cup AAAARecords \cup SrvRecords

\* Lengths (answers, additionals) of the responses within the bound.
SectionLengths ==
    {p \in (0..MaxRecords) \X (0..MaxRecords) : p[1] + p[2] <= MaxRecords}

\* DNS responses: an answer section and an additional-records section.
Responses ==
    UNION {{[answers |-> a, additionals |-> d] :
                a \in [1..p[1] -> Records], d \in [1..p[2] -> Records]} :
           p \in SectionLengths}

\* ------------------------------------------------------------ failures
\* The io::Error messages of connect; every one has ErrorKind::Other.
QueryFailed == "Failed to query DNS server"
EmptyAnswer == "No valid DNS answers"
UnexpectedRecordType == "Unexpected DNS response"
NotAnARecord == "Did not receive a valid record"
MissingCorrelatedRecord == "Did not receive a valid record"
NoError == ""

\* ------------------------------------------------------- pure components
\* match dst.host().to_string().parse() { Ok(Ipv4Addr) .. Err(_) .. }
Classify(host) == IF ParseIpv4(host).ok THEN "Literal" ELSE "DomainName"

\* Decide with the well-known-port heuristic: AUTO branches on 80 and 443.
DecideWellKnownPort(policy, port) ==
    CASE policy = "A" -> "A"
      [] policy = "SRV" -> "SRV"
      [] policy = "AUTO" ->
            IF port.some /\ port.val \in {80, 443} THEN "SRV" ELSE "A"

\* The record type queried, from the configured record_type and the port.
Decide(policy, port) ==
    CASE policy = "A" -> "A"
      [] policy = "SRV" -> "SRV"
      [] policy = "AUTO" -> IF ~port.some THEN "SRV" ELSE "A"

RECURSIVE FindFrom(_, _, _)
FindFrom(section, target, i) ==
    IF i > Len(section) THEN 0
    ELSE IF section[i].name = target THEN i
    ELSE FindFrom(section, target, i + 1)

\* a_records.iter().find(|record| record.name() == &target): the index of
\* the first record of that name, 0 when there is none.
Find(section, target) == FindFrom(section, target, 1)

\* The entry found must carry A data.
Correlate(a_records, target, new_port) ==
    LET entry == Find(a_records, target) IN
    IF entry # 0
    THEN IF a_records[entry].rdata.type = "A"
         THEN [ok |-> TRUE, ip |-> Ipv4ToString(a_records[entry].rdata.addr),
               port |-> new_port]
         ELSE [ok |-> FALSE, error |-> NotAnARecord]
    ELSE [ok |-> FALSE, error |-> MissingCorrelatedRecord]

\* Resolve with the A query searching the additional section as well.
ResolveSearchBoth(res, qtype, qname, port, choice) ==
    IF res.answers = <<>> THEN [ok |-> FALSE, error |-> EmptyAnswer]
    ELSE IF qtype = "SRV"
    THEN LET answer == res.answers[choice] IN
         IF answer.rdata.type = "SRV"
         THEN Correlate(res.additionals, answer.rdata.target,
                        Some(answer.rdata.port))
         ELSE [ok |-> FALSE, error |-> UnexpectedRecordType]
    ELSE Correlate(res.additionals \o res.answers, qname, port)

\* Resolve with the SRV target looked up in the answer section when the
\* additional section has no record of its name.
ResolveFallback(res, qtype, qname, port, choice) ==
    IF res.answers = <<>> THEN [ok |-> FALSE, error |-> EmptyAnswer]
    ELSE IF qtype = "SRV"
    THEN LET answer == res.answers[choice] IN
         IF answer.rdata.type = "SRV"
         THEN Correlate(res.additionals \o res.answers, answer.rdata.target,
                        Some(answer.rdata.port))
         ELSE [ok |-> FALSE, error |-> UnexpectedRecordType]
    ELSE Correlate(res.answers, qname, port)

\* Resolve without the test for an empty answer section on an A query.
ResolveNoEmptyCheck(res, qtype, qname, port, choice) ==
    IF qtype = "SRV"
    THEN IF res.answers = <<>> THEN [ok |-> FALSE, error |-> UnexpectedRecordType]
         ELSE LET answer == res.answers[choice] IN
              IF answer.rdata.type = "SRV"
              THEN Correlate(res.additionals, answer.rdata.target,
                             Some(answer.rdata.port))
              ELSE [ok |-> FALSE, error |-> UnexpectedRecordType]
    ELSE Correlate(res.answers \o res.additionals, qname, port)

\* The closure run on the DNS response; choice is the index rng.choose
\* picks among the answers (used by an SRV query only).
Resolve(res, qtype, qname, port, choice) ==
    IF res.answers = <<>> THEN [ok |-> FALSE, error |-> EmptyAnswer]
    ELSE IF qtype = "SRV"
    THEN LET answer == res.answers[choice] IN
         IF answer.rdata.type = "SRV"
         THEN Correlate(res.additionals, answer.rdata.target,
                        Some(answer.rdata.port))
         ELSE [ok |-> FALSE, error |-> UnexpectedRecordType]
    ELSE Correlate(res.answers, qname, port)

\* Assemble with the port of the request kept when it has one.
AssembleKeepPort(d, ip, port, force) ==
    LET hosted == [d EXCEPT !.host = ip]
        schemed == IF force THEN [hosted EXCEPT !.scheme = "https"] ELSE hosted
    IN  IF port.some /\ ~d.port.some THEN [schemed EXCEPT !.port = port]
        ELSE schemed

\* The destination handed to the delegate after a resolution.
Assemble(d, ip, port, force) ==
    LET hosted == [d EXCEPT !.host = ip]
        schemed == IF force THEN [hosted EXCEPT !.scheme = "https"] ELSE hosted
    IN  IF port.some THEN [schemed EXCEPT !.port = port] ELSE schemed

\* PassThrough with the scheme forced, as it is after a resolution.
PassThroughForced(d) == [d EXCEPT !.scheme = "https"]

\* The destination handed to the delegate for a literal address.
PassThrough(d) == d

\* ------------------------------------------------------------------ state
VARIABLES
    record_type,        \* self.record_type
    force_https,        \* self.force_https
    dst,                \* the Destination of this attempt
    pc,                 \* where the attempt is
    dns_client,         \* whether the lookup channel was constructed
    name,               \* <<the parsed query name>>, or <<>>
    trust_record_type,  \* <<the record type to query>>, or <<>>
    queries,            \* the DNS queries issued, in order
    response,           \* <<the response received>>, or <<>>
    chosen,             \* <<the index rng.choose picked>>, or <<>>
    resolved,           \* <<[ip, port]>> once resolved, or <<>>
    error,              \* the message of the failure, or NoError
    delegateCalls       \* the destinations passed to connector.connect

vars == <<record_type, force_https, dst, pc, dns_client, name,
          trust_record_type, queries, response, chosen, resolved, error,
          delegateCalls>>

\* DnsConnector::new / new_with_resolve_type, then a call of connect(dst).
Init ==
    /\ record_type \in Policies
    /\ force_https = TRUE
    /\ dst \in Destinations
    /\ pc = "start"
    /\ dns_client = FALSE
    /\ name = <<>>
    /\ trust_record_type = <<>>
    /\ queries = <<>>
    /\ response = <<>>
    /\ chosen = <<>>
    /\ resolved = <<>>
    /\ error = NoError
    /\ delegateCalls = <<>>

\* connect(), the host is an IPv4 literal: the delegate is called at once.
ConnectLiteral ==
    /\ pc = "start"
    /\ Classify(dst.host) = "Literal"
    /\ dns_client' = TRUE
    /\ delegateCalls' = Append(delegateCalls, PassThrough(dst))
    /\ pc' = "done"
    /\ UNCHANGED <<record_type, force_https, dst, name, trust_record_type,
                   queries, response, chosen, resolved, error>>

\* connect(), the host is a domain name: the query name and the record
\* type are computed and the future is returned; unwrap() panics when the
\* name does not parse.
ConnectDomain ==
    /\ pc = "start"
    /\ Classify(dst.host) = "DomainName"
    /\ dns_client' = TRUE
    /\ \E r \in ParseNameOutcomes(FormatQueryName(dst.host)) :
          IF r.ok
          THEN /\ name' = <<r.name>>
               /\ trust_record_type' = <<Decide(record_type, dst.port)>>
               /\ pc' = "connecting"
          ELSE /\ pc' = "panicked"
               /\ UNCHANGED <<name, trust_record_type>>
    /\ UNCHANGED <<record_type, force_https, dst, queries, response, chosen,
                   resolved, error, delegateCalls>>

\* The lookup channel fails before a query is sent (or_else).
ClientError ==
    /\ pc = "connecting"
    /\ error' = QueryFailed
    /\ pc' = "failed"
    /\ UNCHANGED <<record_type, force_https, dst, dns_client, name,
                   trust_record_type, queries, response, chosen, resolved,
                   delegateCalls>>

\* client.query(name, DNSClass::IN, trust_record_type)
SendQuery ==
    /\ pc = "connecting"
    /\ queries' = Append(queries, [name |-> name[1], class |-> "IN",
                                   type |-> trust_record_type[1]])
    /\ pc' = "querying"
    /\ UNCHANGED <<record_type, force_https, dst, dns_client, name,
                   trust_record_type, response, chosen, resolved, error,
                   delegateCalls>>

\* QueryError with the query sent again instead of the failure.
QueryErrorRetry ==
    /\ pc = "querying"
    /\ Len(queries) < 3
    /\ queries' = Append(queries, queries[1])
    /\ UNCHANGED <<record_type, force_https, dst, pc, dns_client, name,
                   trust_record_type, response, chosen, resolved, error,
                   delegateCalls>>

\* The query fails or times out (or_else).
QueryError ==
    /\ pc = "querying"
    /\ error' = QueryFailed
    /\ pc' = "failed"
    /\ UNCHANGED <<record_type, force_https, dst, dns_client, name,
                   trust_record_type, queries, response, chosen, resolved,
                   delegateCalls>>

\* A response arrives and is resolved to an address and a port, or fails.
Respond ==
    /\ pc = "querying"
    /\ \E res \in Responses :
          /\ response' = <<res>>
          /\ \E choice \in (IF res.answers # <<>> /\ trust_record_type[1] = "SRV"
                            THEN 1..Len(res.answers) ELSE {0}) :
                LET r == Resolve(res, trust_record_type[1], name[1], dst.port,
                                 choice)
                IN  /\ chosen' = IF choice = 0 THEN <<>> ELSE <<choice>>
                    /\ IF r.ok
                       THEN /\ resolved' = <<[ip |-> r.ip, port |-> r.port]>>
                            /\ pc' = "resolved"
                            /\ UNCHANGED error
                       ELSE /\ error' = r.error
                            /\ pc' = "failed"
                            /\ UNCHANGED resolved
    /\ UNCHANGED <<record_type, force_https, dst, dns_client, name,
                   trust_record_type, queries, delegateCalls>>

\* The resolved endpoint is assembled and handed to the delegate.
Connect ==
    /\ pc = "resolved"
    /\ delegateCalls' = Append(delegateCalls,
            Assemble(dst, resolved[1].ip, resolved[1].port, force_https))
    /\ pc' = "done"
    /\ UNCHANGED <<record_type, force_https, dst, dns_client, name,
                   trust_record_type, queries, response, chosen, resolved,
                   error>>

Next ==
    \/ ConnectLiteral
    \/ ConnectDomain
    \/ ClientError
    \/ SendQuery
    \/ QueryError
    \/ Respond
    \/ Connect

Spec == Init /\ [][Next]_vars

\* --------------------------------------------------- reading the state
\* The dotted-quad text of the addresses the records carry.
AddrText(a) ==
    IF a = Addr1 THEN <<"1", "0", ".", "0", ".", "0", ".", "5">>
    ELSE <<"1", "0", ".", "0", ".", "0", ".", "6">>

Answered == response # <<>>
QueriedType == queries[1].type
QueriedName == queries[1].name
Answers == response[1].answers
Additionals == response[1].additionals

\* The positions of the records of a section that carry the given name.
Named(section, n) == {i \in 1..Len(section) : section[i].name = n}

IsARecord(r) == r.rdata.type = "A"

\* The answer picked for an SRV query carries SRV data.
PickedSrv ==
    /\ Answered
    /\ QueriedType = "SRV"
    /\ chosen # <<>>
    /\ Answers[chosen[1]].rdata.type = "SRV"

PickedTarget == Answers[chosen[1]].rdata.target
PickedPort == Answers[chosen[1]].rdata.port

Succeeded == pc \in {"resolved", "done"} /\ error = NoError /\ resolved # <<>>

Failed(e) == pc = "failed" /\ error = e /\ resolved = <<>> /\ delegateCalls = <<>>

\* The record type the policy table gives for this attempt.
PolicyTable ==
    IF record_type = "A" THEN "A"
    ELSE IF record_type = "SRV" THEN "SRV"
    ELSE IF dst.port = None THEN "SRV"
    ELSE "A"

\* ------------------------------------------------------------------ C1
\* C1: a request whose host is a literal IPv4 address never issues a DNS
\* query, and the delegate is invoked exactly once with the destination of
\* the request unchanged (scheme, host and port), whatever the policy.
C1_LiteralBypass ==
    dst.host \in LiteralHosts =>
        /\ queries = <<>>
        /\ response = <<>>
        /\ error = NoError
        /\ pc \in {"start", "done"}
        /\ (pc = "start" => delegateCalls = <<>>)
        /\ (pc = "done" => delegateCalls = <<dst>>)

C1_Witness ==
    /\ dst.host \in LiteralHosts
    /\ record_type = "SRV"
    /\ dst.port = None
    /\ pc = "done"
    /\ delegateCalls = <<dst>>
    /\ dst.scheme = "http"

\* ------------------------------------------------------------------ C2
\* C2: the record type of every query issued for a domain name is given by
\* the policy and the port alone: A under A, SRV under SRV, and under AUTO
\* SRV exactly when the request has no port, A when it has any port.
C2_QueryType ==
    /\ (pc \in {"connecting", "querying", "resolved"} =>
            trust_record_type = <<PolicyTable>>)
    /\ \A i \in 1..Len(queries) :
          /\ queries[i].type = PolicyTable
          /\ queries[i].class = "IN"

C2_Witness ==
    /\ record_type = "AUTO"
    /\ dst.port = Some(80)
    /\ Len(queries) = 1
    /\ queries[1].type = "A"

\* ------------------------------------------------------------------ C3
\* C3: for an SRV query whose picked answer is an SRV record with target t
\* and port p, when the additional section has exactly one record named t
\* and it is an A record with address a, the resolution succeeds and the
\* delegate is invoked with host a and port p, whatever port was requested.
C3_SrvEndpoint ==
    PickedSrv =>
        LET m == Named(Additionals, PickedTarget) IN
        (Cardinality(m) = 1 /\ \A i \in m : IsARecord(Additionals[i])) =>
            \E i \in m :
                /\ Succeeded
                /\ resolved[1].ip = AddrText(Additionals[i].rdata.addr)
                /\ resolved[1].port = Some(PickedPort)
                /\ (pc = "done" =>
                        /\ Len(delegateCalls) = 1
                        /\ delegateCalls[1].host = AddrText(Additionals[i].rdata.addr)
                        /\ delegateCalls[1].port = Some(PickedPort))

C3_Witness ==
    /\ PickedSrv
    /\ PickedTarget = NameT
    /\ Named(Additionals, NameT) = {1}
    /\ IsARecord(Additionals[1])
    /\ dst.port = Some(8080)
    /\ pc = "done"
    /\ delegateCalls[1].host = AddrText(Addr1)
    /\ delegateCalls[1].port = Some(8443)

\* ------------------------------------------------------------------ C4
\* What an A query must give, read from the answer section alone.
AnswerSectionOutcome ==
    LET m == Named(Answers, QueriedName) IN
    IF Answers = <<>> THEN [ok |-> FALSE, error |-> EmptyAnswer]
    ELSE IF m = {} THEN [ok |-> FALSE, error |-> MissingCorrelatedRecord]
    ELSE LET first == CHOOSE i \in m : \A j \in m : i <= j IN
         IF IsARecord(Answers[first])
         THEN [ok |-> TRUE, ip |-> AddrText(Answers[first].rdata.addr)]
         ELSE [ok |-> FALSE, error |-> NotAnARecord]

\* C4: for an A query the target is the queried dot-terminated name and
\* only the answer section is searched: the outcome is decided by the
\* answer section alone, the address handed to the delegate is that of an
\* answer record named as the query, and the port is the request's port
\* (absent stays absent).
C4_AQuery ==
    (Answered /\ QueriedType = "A") =>
        /\ QueriedName = name[1]
        /\ QueriedName.fqdn
        /\ IF AnswerSectionOutcome.ok
           THEN /\ Succeeded
                /\ resolved[1].ip = AnswerSectionOutcome.ip
                /\ resolved[1].port = dst.port
                /\ \E i \in Named(Answers, QueriedName) :
                      /\ IsARecord(Answers[i])
                      /\ resolved[1].ip = AddrText(Answers[i].rdata.addr)
                /\ (pc = "done" =>
                        /\ Len(delegateCalls) = 1
                        /\ delegateCalls[1].host = resolved[1].ip
                        /\ delegateCalls[1].port = dst.port)
           ELSE Failed(AnswerSectionOutcome.error)

C4_Witness ==
    /\ Answered
    /\ QueriedType = "A"
    /\ dst.port = None
    /\ pc = "done"
    /\ delegateCalls[1].host = AddrText(Addr1)
    /\ delegateCalls[1].port = None
    /\ \E i \in Named(Additionals, QueriedName) :
          IsARecord(Additionals[i]) /\ Additionals[i].rdata.addr = Addr2

\* ------------------------------------------------------------------ C5
\* C5: for an SRV query, when no additional record is named as the target
\* of the picked SRV answer, the resolution fails with
\* MissingCorrelatedRecord and the delegate is not invoked, whatever the
\* answer section and the other SRV answers hold.
C5_SrvMissing ==
    (PickedSrv /\ Named(Additionals, PickedTarget) = {}) =>
        Failed(MissingCorrelatedRecord)

C5_Witness ==
    /\ PickedSrv
    /\ Named(Additionals, PickedTarget) = {}
    /\ \E j \in 1..Len(Answers) :
          /\ j # chosen[1]
          /\ Answers[j].rdata.type = "SRV"
          /\ \E k \in Named(Additionals, Answers[j].rdata.target) :
                IsARecord(Additionals[k])
    /\ Failed(MissingCorrelatedRecord)

\* ------------------------------------------------------------------ C6
\* C6: a response with an empty answer section fails with EmptyAnswer for
\* SRV and A queries alike, whatever the additional section holds; no
\* answer is picked at random and the delegate is not invoked.
C6_EmptyAnswer ==
    (Answered /\ Answers = <<>>) =>
        /\ Failed(EmptyAnswer)
        /\ chosen = <<>>

C6_Witness ==
    /\ Answered
    /\ Answers = <<>>
    /\ QueriedType = "SRV"
    /\ \E i \in 1..Len(Additionals) : IsARecord(Additionals[i])
    /\ Failed(EmptyAnswer)

\* ------------------------------------------------------------------ C7
C7_State ==
    /\ Len(queries) <= 1
    /\ (error # NoError => pc = "failed" /\ delegateCalls = <<>>)
    /\ (pc = "failed" =>
            /\ error \in {QueryFailed, EmptyAnswer, UnexpectedRecordType,
                          MissingCorrelatedRecord}
            /\ delegateCalls = <<>>)

\* C7: a failure ends the attempt: at most one DNS query is ever issued,
\* and once the attempt has failed nothing more happens, in particular no
\* further query and no call of the delegate.
C7_Terminal ==
    /\ []C7_State
    /\ [][pc = "failed" =>
            /\ pc' = "failed"
            /\ queries' = queries
            /\ delegateCalls' = delegateCalls]_vars

C7_Witness ==
    /\ pc = "failed"
    /\ error = UnexpectedRecordType
    /\ QueriedType = "SRV"
    /\ record_type = "AUTO"
    /\ Len(queries) = 1
    /\ \E i \in Named(Answers, QueriedName) : IsARecord(Answers[i])

\* ------------------------------------------------------------------ C8
\* The section searched and the name looked for in it.
Searched == IF QueriedType = "SRV" THEN Additionals ELSE Answers
Target == IF QueriedType = "SRV" THEN PickedTarget ELSE QueriedName
Correlating == Answered /\ Answers # <<>> /\ (QueriedType = "SRV" => PickedSrv)

\* C8: whenever the searched section holds an A record named as the
\* target, the resolution succeeds with the address of such an A record,
\* whatever other records of that name the section holds, in any order.
C8_FindsARecord ==
    (Correlating /\ \E i \in Named(Searched, Target) : IsARecord(Searched[i])) =>
        /\ Succeeded
        /\ \E i \in Named(Searched, Target) :
              /\ IsARecord(Searched[i])
              /\ resolved[1].ip = AddrText(Searched[i].rdata.addr)

\* ------------------------------------------------------------------ C9
\* The first record named as the target does not carry A data.
MatchedNotA ==
    /\ Correlating
    /\ Named(Searched, Target) # {}
    /\ \E i \in Named(Searched, Target) :
          /\ \A j \in Named(Searched, Target) : i <= j
          /\ ~IsARecord(Searched[i])

\* C9: when the record matched by name does not carry A data the failure
\* is UnexpectedRecordType, the failure of an SRV answer without SRV data,
\* and it differs from the failure reported when no record matches.
C9_NotAIsUnexpected ==
    MatchedNotA =>
        /\ pc = "failed"
        /\ error = UnexpectedRecordType
        /\ error # MissingCorrelatedRecord

\* ------------------------------------------------------------------ C10
EndsInDot(s) == s # <<>> /\ s[Len(s)] = "."

\* The host with exactly one trailing root label.
OneRootLabel(host) == IF EndsInDot(host) THEN host ELSE host \o <<".">>

\* C10: the name queried for a domain-name host is the host with exactly
\* one trailing root label, and building it never aborts the attempt.
C10_QueryName ==
    /\ pc # "panicked"
    /\ \A i \in 1..Len(queries) : queries[i].name = NameOf(OneRootLabel(dst.host))

====
